---- MODULE Spec2Model ----
(***************************************************************************)
(* Model of app.py, the monthly coupon generator: the code generator       *)
(* generate_secure_code, the document builder generate_docx (column        *)
(* detection, per-row prefix, header, 13 x 5 coupon table, page breaks),   *)
(* the "Generate Coupons" handler around it, and the password gate         *)
(* check_password that runs at the top of every script rerun.              *)
(*                                                                         *)
(* Python strings are sequences of one-character strings, so that lower(), *)
(* upper(), strip(), "in" and f-string concatenation are computed here as  *)
(* Python computes them.                                                   *)
(***************************************************************************)
EXTENDS Integers, Sequences, FiniteSets, TLC

VARIABLES
    \* ---- generate_docx and the handler that calls it
    df,                   \* the DataFrame: [columns |-> <<name, ...>>, rows |-> <<row, ...>>]
    selected_date,        \* "<month> <year>" label
    default_prefix_input, \* the fallback prefix typed in the form
    pc,                   \* position inside the handler / generate_docx
    col_name, col_id, col_prefix,
    index,                \* index of the next row of df.iterrows()
    doc,                  \* body of the docx document: headers, tables, page breaks
    progress,             \* last value given to progress_bar.progress, <<num, den>>
    current_prefix,       \* generate_docx's local of that name, after the last row handled
    buffer,               \* what generate_docx returned (None until it returns)
    ui,                   \* what the handler showed last
    \* ---- one call of generate_secure_code
    sc_prefix, sc_draw, sc_code, sc_pc,
    \* ---- the password gate across reruns of the script
    secret_password,      \* st.secrets["password"], or None when not configured
    password_correct,     \* st.session_state["password_correct"]
    pwd,                  \* text submitted in the password box in the last run
    granted,              \* what check_password returned in the last run
    gate_ui,              \* what the last run rendered
    runs                  \* number of script runs so far in this session

vars == <<df, selected_date, default_prefix_input, pc, col_name, col_id, col_prefix,
          index, doc, progress, current_prefix, buffer, ui,
          sc_prefix, sc_draw, sc_code, sc_pc,
          secret_password, password_correct, pwd, granted, gate_ui, runs>>

docVars  == <<df, selected_date, default_prefix_input, pc, col_name, col_id, col_prefix,
              index, doc, progress, current_prefix, buffer, ui>>
codeVars == <<sc_prefix, sc_draw, sc_code, sc_pc>>
gateVars == <<secret_password, password_correct, pwd, granted, gate_ui, runs>>

(***************************************************************************)
(* Bounds of the model.                                                    *)
(***************************************************************************)
MaxCols == 3          \* longest column list enumerated
MaxRows == 2          \* longest roster enumerated
MaxRepeatAt == 1      \* a page's repeated draw, if any, is among its first MaxRepeatAt+1
MaxDraw == 9          \* random outcomes of a single generate_secure_code call: 0..MaxDraw
MaxRuns == 5          \* script reruns in a session

(***************************************************************************)
(* Python values and strings.                                              *)
(***************************************************************************)
None == <<"<None>">>  \* Python's None: no sequence of single characters equals it

ascii_uppercase == <<"A","B","C","D","E","F","G","H","I","J","K","L","M",
                     "N","O","P","Q","R","S","T","U","V","W","X","Y","Z">>
ascii_lowercase == <<"a","b","c","d","e","f","g","h","i","j","k","l","m",
                     "n","o","p","q","r","s","t","u","v","w","x","y","z">>
digits == <<"0","1","2","3","4","5","6","7","8","9">>
Whitespace == {" ", "\t", "\n"}

Range(s) == {s[i] : i \in 1..Len(s)}

IndexIn(s, c) == CHOOSE i \in 1..Len(s) : s[i] = c

LowerChar(c) == IF c \in Range(ascii_uppercase)
                THEN ascii_lowercase[IndexIn(ascii_uppercase, c)] ELSE c
UpperChar(c) == IF c \in Range(ascii_lowercase)
                THEN ascii_uppercase[IndexIn(ascii_lowercase, c)] ELSE c

\* str.lower(), str.upper()
Lower(s) == [i \in 1..Len(s) |-> LowerChar(s[i])]
Upper(s) == [i \in 1..Len(s) |-> UpperChar(s[i])]

\* str.strip(): drop leading and trailing whitespace
RECURSIVE LStrip(_)
LStrip(s) == IF s # <<>> /\ Head(s) \in Whitespace THEN LStrip(Tail(s)) ELSE s
RECURSIVE RStrip(_)
RStrip(s) == IF s # <<>> /\ s[Len(s)] \in Whitespace
             THEN RStrip(SubSeq(s, 1, Len(s) - 1)) ELSE s
Strip(s) == RStrip(LStrip(s))

\* sub in s
Contains(s, sub) ==
    \E i \in 1..(Len(s) - Len(sub) + 1) : SubSeq(s, i, i + Len(sub) - 1) = sub

\* s.startswith(p)
StartsWith(s, p) == Len(p) <= Len(s) /\ SubSeq(s, 1, Len(p)) = p

\* str(n) for an integer n >= 0
RECURSIVE IntStr(_)
IntStr(n) == IF n < 10 THEN <<digits[n + 1]>>
             ELSE IntStr(n \div 10) \o <<digits[(n % 10) + 1]>>

(***************************************************************************)
(* A DataFrame cell as pandas.read_csv leaves it: a missing value (NaN),   *)
(* a string, or an integer.  PyStr is str(cell).                           *)
(***************************************************************************)
NaN == [kind |-> "nan", s |-> <<>>, n |-> 0]
StrCell(s) == [kind |-> "str", s |-> s, n |-> 0]
IntCell(n) == [kind |-> "int", s |-> <<>>, n |-> n]

PyStr(cell) == CASE cell.kind = "nan" -> <<"n","a","n">>
                 [] cell.kind = "int" -> IntStr(cell.n)
                 [] OTHER -> cell.s

(***************************************************************************)
(* generate_secure_code.  secrets.choice(alphabet) is a random draw; the   *)
(* seven draws of one call are the argument r, a sequence of seven indexes *)
(* into alphabet.                                                          *)
(***************************************************************************)
alphabet == ascii_uppercase \o digits
AlphabetSize == Len(alphabet)

Part1Len == 3
Part2Len == 4
\* the n characters drawn, as alphabet indexes, when the draws read v in base 36
RECURSIVE DrawsOf(_, _)
DrawsOf(v, n) == IF n = 0 THEN <<>>
                 ELSE DrawsOf(v \div AlphabetSize, n - 1) \o <<(v % AlphabetSize) + 1>>

\* the seven draws of one call: v1 gives part1, v2 gives part2
Draw(v1, v2) == DrawsOf(v1, Part1Len) \o DrawsOf(v2, Part2Len)

invalid_prefixes == { <<"N","A","N">>, <<"N","O","N","E">>, <<>>, <<"n","a","n">> }

generate_secure_code_raw_prefix(prefix, r) ==
    LET part1 == [i \in 1..Part1Len |-> alphabet[r[i]]]
        part2 == [i \in 1..Part2Len |-> alphabet[r[Part1Len + i]]]
        clean_prefix == Strip(Upper(prefix))
    IN  IF clean_prefix \in invalid_prefixes
        THEN part1 \o <<"-">> \o part2
        ELSE prefix \o <<"-">> \o part1 \o <<"-">> \o part2

generate_secure_code(prefix, r) ==
    LET part1 == [i \in 1..Part1Len |-> alphabet[r[i]]]
        part2 == [i \in 1..Part2Len |-> alphabet[r[Part1Len + i]]]
        clean_prefix == Strip(Upper(prefix))
    IN  IF clean_prefix \in invalid_prefixes
        THEN part1 \o <<"-">> \o part2
        ELSE clean_prefix \o <<"-">> \o part1 \o <<"-">> \o part2

(***************************************************************************)
(* One call of generate_secure_code on a prefix and a random outcome.      *)
(***************************************************************************)
S_EMP  == <<"E","M","P">>
S_VIP  == <<"V","I","P">>
S_vip  == <<"v","i","p">>
S_nan  == <<"n","a","n">>
S_none == <<"n","o","n","e">>
S_None == <<"N","o","n","e">>
S_Nan  == <<"N","a","n">>
S_sp_nan == <<" ","n","a","n">>
S_blank == <<" ">>
S_VIP_sp == <<"V","I","P"," ">>
S_sp_none_sp == <<" ","N","O","N","E","\t">>
S_A1 == <<"a","1">>

PrefixArgs == { S_EMP, S_VIP, S_vip, S_nan, S_none, S_None, S_Nan, S_sp_nan,
                S_blank, <<>>, S_VIP_sp, S_sp_none_sp, S_A1 }

\* a sample of the outcomes of the seven secrets.choice calls
SampleDraw(k) == Draw((k * 5171) % (AlphabetSize * AlphabetSize * AlphabetSize),
                      (k * 186619) % (AlphabetSize * AlphabetSize * AlphabetSize * AlphabetSize))

InitCode ==
    /\ sc_prefix \in PrefixArgs
    /\ sc_draw = None
    /\ sc_code = None
    /\ sc_pc = "call"

CallGenerateSecureCode ==
    /\ sc_pc = "call"
    /\ \E k \in 0..MaxDraw :
         /\ sc_draw' = SampleDraw(k)
         /\ sc_code' = generate_secure_code(sc_prefix, SampleDraw(k))
    /\ sc_pc' = "returned"
    /\ UNCHANGED <<sc_prefix, docVars, gateVars>>

(***************************************************************************)
(* The password gate.  Streamlit reruns the whole script on every widget   *)
(* interaction; st.session_state survives the reruns of one session.       *)
(***************************************************************************)
S_pw1 == <<"s","3","c">>
S_pw2 == <<"S","3","c">>

Passwords == { S_pw1, S_pw2, <<>> }        \* what st.secrets["password"] may hold
PwdInputs == { <<>>, S_pw1, S_pw2, S_vip } \* what the user may submit; <<>> is an empty box

\* check_password(): <<returned value, new password_correct, text read from the box>>
check_password_forgets(flag, secret, input) ==
    IF secret = None THEN <<TRUE, flag, None>>
    ELSE IF input = secret THEN <<TRUE, TRUE, input>>
    ELSE <<FALSE, FALSE, input>>

check_password(flag, secret, input) ==
    IF flag THEN <<TRUE, flag, None>>
    ELSE IF secret = None THEN <<TRUE, flag, None>>
    ELSE IF input = secret THEN <<TRUE, TRUE, input>>
    ELSE <<FALSE, flag, input>>

InitGate ==
    /\ secret_password \in Passwords \cup {None}
    /\ password_correct = FALSE
    /\ pwd = None
    /\ granted = FALSE
    /\ gate_ui = "not_run"
    /\ runs = 0

\* one run of the script: the gate, then the form (and the handler, when the
\* "Generate Coupons" button was clicked) if the gate lets the run through
Rerun ==
    /\ runs < MaxRuns
    /\ \E input \in PwdInputs, click \in BOOLEAN :
         LET r == check_password(password_correct, secret_password, input) IN
         /\ granted' = r[1]
         /\ password_correct' = r[2]
         /\ pwd' = r[3]
         /\ gate_ui' = IF r[1] THEN (IF click THEN "form_generate" ELSE "form")
                       ELSE IF r[3] # <<>> THEN "incorrect_password"
                       ELSE "password_box"
    /\ runs' = runs + 1
    /\ UNCHANGED <<secret_password, docVars, codeVars>>

(***************************************************************************)
(* generate_docx: column detection.                                        *)
(***************************************************************************)
S_name_kw   == <<"n","a","m","e">>
S_code_kw   == <<"c","o","d","e">>
S_id_kw     == <<"i","d">>
S_prefix_kw == <<"p","r","e","f","i","x">>

\* the body of "for col in df.columns", from column i on
RECURSIVE ScanColumns(_, _, _)
ScanColumns(columns, i, acc) ==
    IF i > Len(columns) THEN acc
    ELSE LET col == columns[i]
             a1 == IF Contains(Lower(col), S_name_kw)
                   THEN [acc EXCEPT !.col_name = col] ELSE acc
             a2 == IF Contains(Lower(col), S_code_kw) \/ Contains(Lower(col), S_id_kw)
                   THEN [a1 EXCEPT !.col_id = col] ELSE a1
             a3 == IF Contains(Lower(col), S_prefix_kw)
                   THEN [a2 EXCEPT !.col_prefix = col] ELSE a2
         IN  ScanColumns(columns, i + 1, a3)

\* the same loop leaving at the first match of each kind: the columns read backwards
RECURSIVE ScanColumnsBackwards(_, _, _)
ScanColumnsBackwards(columns, i, acc) ==
    IF i < 1 THEN acc
    ELSE LET col == columns[i]
             a1 == IF Contains(Lower(col), S_name_kw)
                   THEN [acc EXCEPT !.col_name = col] ELSE acc
             a2 == IF Contains(Lower(col), S_code_kw) \/ Contains(Lower(col), S_id_kw)
                   THEN [a1 EXCEPT !.col_id = col] ELSE a1
             a3 == IF Contains(Lower(col), S_prefix_kw)
                   THEN [a2 EXCEPT !.col_prefix = col] ELSE a2
         IN  ScanColumnsBackwards(columns, i - 1, a3)

DetectColumns_first_match(columns) ==
    IF Len(columns) < 2
    THEN [raised |-> TRUE, col_name |-> None, col_id |-> None, col_prefix |-> None]
    ELSE ScanColumnsBackwards(columns, Len(columns),
             [raised |-> FALSE, col_name |-> columns[1], col_id |-> columns[2],
              col_prefix |-> None])

DetectColumns_no_fallback(columns) ==
    IF Len(columns) < 2
    THEN [raised |-> TRUE, col_name |-> None, col_id |-> None, col_prefix |-> None]
    ELSE ScanColumns(columns, 1,
             [raised |-> FALSE, col_name |-> columns[2], col_id |-> columns[1],
              col_prefix |-> None])

DetectColumns_short_ok(columns) ==
    IF Len(columns) < 1
    THEN [raised |-> TRUE, col_name |-> None, col_id |-> None, col_prefix |-> None]
    ELSE ScanColumns(columns, 1,
             [raised |-> FALSE, col_name |-> columns[1], col_id |-> columns[Len(columns)],
              col_prefix |-> None])

\* lines 100-110: df.columns[0] and df.columns[1] raise IndexError on a table
\* with fewer than two columns; otherwise the loop runs over every column
DetectColumns(columns) ==
    IF Len(columns) < 2
    THEN [raised |-> TRUE, col_name |-> None, col_id |-> None, col_prefix |-> None]
    ELSE ScanColumns(columns, 1,
             [raised |-> FALSE, col_name |-> columns[1], col_id |-> columns[2],
              col_prefix |-> None])

(***************************************************************************)
(* generate_docx: one row's page.                                          *)
(***************************************************************************)
GridRows == 13
GridCols == 5
GridCells == GridRows * GridCols

COUPON_VALUE == <<"\\u20B9","1","0">>

ColumnIndex(columns, col) == CHOOSE j \in 1..Len(columns) : columns[j] = col
\* row[col]
RowGet(columns, row, col) == row[ColumnIndex(columns, col)]

\* lines 121-126
ResolvePrefix(columns, row, prefix_col, fallback) ==
    IF prefix_col # None
    THEN LET row_prefix == PyStr(RowGet(columns, row, prefix_col))
         IN  IF Lower(row_prefix) # S_nan /\ Strip(row_prefix) # <<>>
             THEN row_prefix ELSE fallback
    ELSE fallback

Paragraph(text) == [kind |-> "paragraph", text |-> text, cells |-> <<>>]
Table(cells)    == [kind |-> "table", text |-> <<>>, cells |-> cells]
PageBreak       == [kind |-> "page_break", text |-> <<>>, cells |-> <<>>]

S_NameLbl  == <<"N","a","m","e",":"," ">>
S_MonthLbl == <<" "," ","|"," "," ","M","o","n","t","h",":"," ">>
S_Coupon   == <<" ","C","o","u","p","o","n">>

\* line 133
HeaderText(name, id, date) ==
    S_NameLbl \o name \o <<" ","(">> \o id \o <<")">> \o S_MonthLbl \o date

\* create_coupon_content: the four runs of one cell
create_coupon_content(name, emp_id, code, date_label) ==
    [value |-> COUPON_VALUE \o S_Coupon,
     code  |-> code,
     info  |-> name \o <<"\n","(">> \o emp_id \o <<")">>,
     date  |-> date_label]

\* the random outcome of the 65 calls made for the page of row i: pairwise
\* different draws, except that with c > 0 call c+1 draws what call c drew
PageDraws(i, c) ==
    [k \in 1..GridCells |->
        SampleDraw(i * GridCells + (IF c > 0 /\ k = c + 1 THEN k - 1 ELSE k))]

\* lines 146-150: table.cell(r, c) for r in range(13), c in range(5), in that order
CouponGrid_short(name, emp_id, prefix, date, draws) ==
    [k \in 1..(GridCells - 1) |->
        create_coupon_content(name, emp_id, generate_secure_code(prefix, draws[k]), date)]

CouponGrid(name, emp_id, prefix, date, draws) ==
    [k \in 1..GridCells |->
        create_coupon_content(name, emp_id, generate_secure_code(prefix, draws[k]), date)]

\* line 153
NeedsPageBreak_always(i, n) == i < n

NeedsPageBreak(i, n) == i < n - 1

(***************************************************************************)
(* The rosters and forms the handler is run on.                            *)
(***************************************************************************)
S_Name     == <<"N","a","m","e">>
S_FullName == <<"F","u","l","l"," ","N","A","M","E">>
S_EmpID    == <<"E","m","p"," ","I","D">>
S_Code     == <<"C","o","d","e">>
S_Prefix   == <<"P","r","e","f","i","x">>
S_X        == <<"X">>
S_Employee == <<"E","m","p","l","o","y","e","e">>
S_Badge    == <<"B","a","d","g","e">>

ColumnPool == { S_Name, S_FullName, S_EmpID, S_Code, S_Prefix, S_X }

\* every list of at most MaxCols different column names of the pool
ColumnLists ==
    { s \in UNION { [1..n -> ColumnPool] : n \in 0..MaxCols } :
        \A i, j \in 1..Len(s) : i # j => s[i] # s[j] }

RosterColumnLists == { <<S_Name, S_EmpID, S_Prefix>>,
                       <<S_Employee, S_Badge, S_X>>,
                       <<S_EmpID, S_Name>> }

S_Asha == <<"A","s","h","a">>
S_Ravi == <<"R","a","v","i">>
S_Mina == <<"M","i","n","a">>
S_Li   == <<"L","i">>
S_E3   == <<"E","3">>
S_E4   == <<"E","4">>

\* the first three cells of a roster line
RowTemplates == { <<StrCell(S_Asha), IntCell(101), StrCell(S_VIP)>>,
                  <<StrCell(S_Ravi), IntCell(7),   NaN>>,
                  <<StrCell(S_Mina), StrCell(S_E3), StrCell(S_none)>>,
                  <<StrCell(S_Li),   StrCell(S_E4), StrCell(S_blank)>> }

S_ASHA == <<"A","S","H","A">>
SampleRow == <<StrCell(S_ASHA), IntCell(101), NaN>>

RowOf(template, ncols) ==
    [j \in 1..ncols |-> IF j <= Len(template) THEN template[j] ELSE StrCell(<<"-">>)]

\* rosters of at most MaxRows different lines
Rosters == { r \in UNION { [1..n -> RowTemplates] : n \in 0..MaxRows } :
               \A i, j \in 1..Len(r) : i # j => r[i] # r[j] }

MakeRows(roster, ncols) == [i \in 1..Len(roster) |-> RowOf(roster[i], ncols)]

Fallbacks == { S_EMP, <<>> }
S_May2026 == <<"M","a","y"," ","2","0","2","6">>

InitDoc ==
    /\ \/ /\ df \in { [columns |-> c,
                         rows |-> MakeRows(<<SampleRow>>, Len(c))]
                       : c \in ColumnLists }
          /\ default_prefix_input = S_EMP
       \/ /\ df \in { [columns |-> c, rows |-> MakeRows(r, Len(c))]
                       : c \in RosterColumnLists, r \in Rosters }
          /\ default_prefix_input \in Fallbacks
    /\ selected_date = S_May2026
    /\ pc = "generate_docx"
    /\ col_name = None /\ col_id = None /\ col_prefix = None
    /\ index = 0
    /\ doc = <<>>
    /\ progress = <<0, 1>>
    /\ current_prefix = None
    /\ buffer = None
    /\ ui = "spinner"

(***************************************************************************)
(* The "Generate Coupons" handler from the call of generate_docx on.       *)
(***************************************************************************)
\* lines 99-115; an exception leaves generate_docx and reaches the handler's
\* "except Exception", which shows it (line 234)
Detect ==
    /\ pc = "generate_docx"
    /\ LET d == DetectColumns(df.columns) IN
        IF d.raised
        THEN /\ pc' = "done"
             /\ ui' = "error"
             /\ UNCHANGED <<col_name, col_id, col_prefix>>
        ELSE /\ pc' = "rows"
             /\ col_name' = d.col_name
             /\ col_id' = d.col_id
             /\ col_prefix' = d.col_prefix
             /\ ui' = "using_columns"
    /\ UNCHANGED <<df, selected_date, default_prefix_input, index, doc, progress,
                   current_prefix, buffer, codeVars, gateVars>>

\* lines 117-156: one iteration of "for index, row in df.iterrows()"
EmitPage ==
    /\ pc = "rows"
    /\ index < Len(df.rows)
    /\ \E c \in 0..MaxRepeatAt :
        LET row      == df.rows[index + 1]
            emp_name == PyStr(RowGet(df.columns, row, col_name))
            emp_id   == PyStr(RowGet(df.columns, row, col_id))
            prefix   == ResolvePrefix(df.columns, row, col_prefix, default_prefix_input)
            header   == Paragraph(HeaderText(emp_name, emp_id, selected_date))
            table    == Table(CouponGrid(emp_name, emp_id, prefix, selected_date,
                                         PageDraws(index, c)))
        IN  /\ current_prefix' = prefix
            /\ doc' = doc \o <<header, table>>
                          \o (IF NeedsPageBreak(index, Len(df.rows))
                              THEN <<PageBreak>> ELSE <<>>)
    /\ progress' = <<index + 1, Len(df.rows)>>
    /\ index' = index + 1
    /\ UNCHANGED <<df, selected_date, default_prefix_input, pc, col_name, col_id,
                   col_prefix, buffer, ui, codeVars, gateVars>>

\* lines 158-161, then lines 222-231 of the handler
SaveAndOffer ==
    /\ pc = "rows"
    /\ index = Len(df.rows)
    /\ buffer' = doc
    /\ ui' = "success_download"
    /\ pc' = "done"
    /\ UNCHANGED <<df, selected_date, default_prefix_input, col_name, col_id,
                   col_prefix, index, doc, progress, current_prefix, codeVars, gateVars>>

(***************************************************************************)
(* Specifications.                                                         *)
(***************************************************************************)
IdleDoc ==
    /\ df = [columns |-> <<>>, rows |-> <<>>]
    /\ selected_date = S_May2026
    /\ default_prefix_input = S_EMP
    /\ pc = "idle"
    /\ col_name = None /\ col_id = None /\ col_prefix = None
    /\ index = 0
    /\ doc = <<>>
    /\ progress = <<0, 1>>
    /\ current_prefix = None
    /\ buffer = None
    /\ ui = "form"

IdleCode == sc_prefix = <<>> /\ sc_draw = None /\ sc_code = None /\ sc_pc = "idle"

IdleGate ==
    /\ secret_password = None
    /\ password_correct = FALSE
    /\ pwd = None
    /\ granted = FALSE
    /\ gate_ui = "not_run"
    /\ runs = 0

\* the handler on a loaded roster
Init == InitDoc /\ IdleCode /\ IdleGate
Next == Detect \/ EmitPage \/ SaveAndOffer
Spec == Init /\ [][Next]_vars

\* generate_secure_code alone
NextCode == CallGenerateSecureCode
InitCallCode == IdleDoc /\ InitCode /\ IdleGate
SpecCode == InitCallCode /\ [][NextCode]_vars

\* the password gate over the reruns of one session
NextGate == Rerun
InitSession == IdleDoc /\ IdleCode /\ InitGate
SpecGate == InitSession /\ [][NextGate]_vars

(***************************************************************************)
(* Vocabulary of the properties.                                           *)
(***************************************************************************)
AlphabetChars == Range(alphabet)

\* AAA-BBBB: three and four characters of the alphabet around one hyphen
IsRandomPart(s) ==
    /\ Len(s) = 8
    /\ s[4] = "-"
    /\ \A i \in (1..8) \ {4} : s[i] \in AlphabetChars

\* empty or a null-like token once trimmed, whatever the case
IsNullLike(s) == Lower(Strip(s)) \in { <<>>, S_nan, S_none }

Resolved == pc \in {"rows", "done"} /\ ui # "error"
Raised   == pc = "done" /\ ui = "error"

MatchesName(col)   == Contains(Lower(col), S_name_kw)
MatchesId(col)     == Contains(Lower(col), S_code_kw) \/ Contains(Lower(col), S_id_kw)
MatchesPrefix(col) == Contains(Lower(col), S_prefix_kw)

Min(S) == CHOOSE x \in S : \A y \in S : x <= y
Max(S) == CHOOSE x \in S : \A y \in S : x >= y

NameHits   == { j \in 1..Len(df.columns) : MatchesName(df.columns[j]) }
IdHits     == { j \in 1..Len(df.columns) : MatchesId(df.columns[j]) }
PrefixHits == { j \in 1..Len(df.columns) : MatchesPrefix(df.columns[j]) }

\* the pages of a document: what lies between its page breaks
RECURSIVE SplitPages(_)
SplitPages(d) ==
    IF \A i \in 1..Len(d) : d[i].kind # "page_break" THEN <<d>>
    ELSE LET b == Min({ i \in 1..Len(d) : d[i].kind = "page_break" })
         IN  <<SubSeq(d, 1, b - 1)>> \o SplitPages(SubSeq(d, b + 1, Len(d)))

NRows == Len(df.rows)
NameOfRow(i) == PyStr(RowGet(df.columns, df.rows[i], col_name))
IdOfRow(i)   == PyStr(RowGet(df.columns, df.rows[i], col_id))

\* the codes of the i-th table of a document
TablesOf(d) == SelectSeq(d, LAMBDA e : e.kind = "table")
CodesOfTable(tbl) == [k \in 1..Len(tbl.cells) |-> tbl.cells[k].code]

(***************************************************************************)
(* C1 (as stated).  For every row handled, the effective prefix is the     *)
(* row's prefix-column value when that value is present and, trimmed, is   *)
(* neither empty nor "nan"/"none" in any case; otherwise it is the         *)
(* fallback prefix; and every code of the row starts with that prefix and  *)
(* a hyphen (the fallback being a real prefix itself).                     *)
(***************************************************************************)
OverrideOfRow(i) == PyStr(RowGet(df.columns, df.rows[i], col_prefix))
HasRealOverride(i) ==
    /\ col_prefix # None
    /\ RowGet(df.columns, df.rows[i], col_prefix).kind # "nan"
    /\ ~IsNullLike(OverrideOfRow(i))
ClaimedPrefix(i) == IF HasRealOverride(i) THEN OverrideOfRow(i) ELSE default_prefix_input

C1_PrefixPrecedence ==
    (Resolved /\ index >= 1) =>
        /\ current_prefix = ClaimedPrefix(index)
        /\ \A i \in 1..index :
              ~IsNullLike(ClaimedPrefix(i)) =>
                 \A k \in 1..GridCells :
                    StartsWith(CodesOfTable(TablesOf(doc)[i])[k],
                               ClaimedPrefix(i) \o <<"-">>)

(***************************************************************************)
(* C2 (as stated).  Column detection selects the FIRST column matching     *)
(* "name", the FIRST matching "code" or "id", the FIRST matching "prefix". *)
(***************************************************************************)
C2_FirstMatchWins ==
    Resolved =>
        /\ NameHits # {}   => col_name = df.columns[Min(NameHits)]
        /\ IdHits # {}     => col_id = df.columns[Min(IdHits)]
        /\ PrefixHits # {} => col_prefix = df.columns[Min(PrefixHits)]

(***************************************************************************)
(* C2 (amended).  Column detection selects the LAST column matching        *)
(* "name", the LAST matching "code" or "id", the LAST matching "prefix",   *)
(* for every column list, several matches of one kind included.            *)
(***************************************************************************)
C2_LastMatchWins ==
    Resolved =>
        /\ NameHits # {}   => col_name = df.columns[Max(NameHits)]
        /\ IdHits # {}     => col_id = df.columns[Max(IdHits)]
        /\ PrefixHits # {} => col_prefix = df.columns[Max(PrefixHits)]

C2_Witness ==
    /\ Resolved
    /\ Cardinality(NameHits) >= 2
    /\ col_name = df.columns[Max(NameHits)]
    /\ col_name # df.columns[Min(NameHits)]

(***************************************************************************)
(* C3.  For a non-empty roster the returned document has exactly           *)
(* len(rows) pages, in the order of the rows, and page i is one header     *)
(* followed by one grid of exactly 13 x 5 = 65 coupons, each carrying the  *)
(* name and the identifier of row i.                                       *)
(***************************************************************************)
C3_OnePagePerRow ==
    (buffer # None /\ NRows >= 1) =>
        LET pages == SplitPages(buffer) IN
        /\ Len(pages) = NRows
        /\ \A i \in 1..Len(pages) :
              LET name == NameOfRow(i)
                  id   == IdOfRow(i)
                  info == name \o <<"\n","(">> \o id \o <<")">>
              IN
              /\ Len(pages[i]) = 2
              /\ pages[i][1].kind = "paragraph"
              /\ Contains(pages[i][1].text, name)
              /\ Contains(pages[i][1].text, id)
              /\ pages[i][2].kind = "table"
              /\ Len(pages[i][2].cells) = 65
              /\ \A k \in 1..Len(pages[i][2].cells) :
                    LET cell == pages[i][2].cells[k] IN
                    /\ cell.info = info
                    /\ IsRandomPart(SubSeq(cell.code, Len(cell.code) - 7, Len(cell.code)))

C3_Witness ==
    /\ buffer # None
    /\ NRows = 2
    /\ Len(SplitPages(buffer)) = 2
    /\ NameOfRow(1) # NameOfRow(2)
    /\ Len(SplitPages(buffer)[2][2].cells) = 65

(***************************************************************************)
(* C4.  For a roster of n >= 1 rows exactly n-1 page breaks are emitted:   *)
(* one right after the grid of every row but the last, none after the      *)
(* last row's grid.                                                        *)
(***************************************************************************)
BreaksIn(d) == { i \in 1..Len(d) : d[i].kind = "page_break" }

C4_BreaksBetweenPages ==
    /\ (Resolved /\ index >= 1) =>
          \* while the rows are handled: a break follows the grid of every row
          \* handled so far, the last row of the roster excepted
          /\ BreaksIn(doc) = { 3 * i : i \in 1..(IF index = NRows THEN index - 1 ELSE index) }
          /\ \A b \in BreaksIn(doc) : doc[b - 1].kind = "table"
    /\ (buffer # None /\ NRows >= 1) =>
          /\ Cardinality(BreaksIn(buffer)) = NRows - 1
          /\ buffer[Len(buffer)].kind = "table"
          /\ \A i \in 1..(NRows - 1) :
                /\ buffer[3 * i].kind = "page_break"
                /\ buffer[3 * i - 1].kind = "table"
                /\ buffer[3 * i - 1].cells[1].info
                      = NameOfRow(i) \o <<"\n","(">> \o IdOfRow(i) \o <<")">>

C4_Witness ==
    /\ buffer # None
    /\ NRows = 2
    /\ Cardinality(BreaksIn(buffer)) = 1
    /\ buffer[3].kind = "page_break"

(***************************************************************************)
(* C5 (as stated).  Every code returned by generate_secure_code is         *)
(* [PREFIX-]AAA-BBBB; when the prefix, trimmed, is empty or "nan"/"none"   *)
(* in any case, the code is exactly AAA-BBBB; otherwise it begins with     *)
(* the prefix followed by a hyphen.                                        *)
(***************************************************************************)
C5_BeginsWithPrefix ==
    sc_pc = "returned" =>
        IF IsNullLike(sc_prefix)
        THEN IsRandomPart(sc_code)
        ELSE /\ StartsWith(sc_code, sc_prefix \o <<"-">>)
             /\ IsRandomPart(SubSeq(sc_code, Len(sc_prefix) + 2, Len(sc_code)))

(***************************************************************************)
(* C5 (amended).  Every code returned by generate_secure_code is           *)
(* [PREFIX-]AAA-BBBB; when the prefix, trimmed, is empty or "nan"/"none"   *)
(* in any case, the code is exactly AAA-BBBB; otherwise it begins with     *)
(* the prefix trimmed and upper-cased, followed by a hyphen.               *)
(***************************************************************************)
C5_BeginsWithCleanPrefix ==
    sc_pc = "returned" =>
        IF IsNullLike(sc_prefix)
        THEN IsRandomPart(sc_code)
        ELSE LET shown == Upper(Strip(sc_prefix)) IN
             /\ StartsWith(sc_code, shown \o <<"-">>)
             /\ IsRandomPart(SubSeq(sc_code, Len(shown) + 2, Len(sc_code)))

C5_Witness ==
    /\ sc_pc = "returned"
    /\ sc_prefix = S_vip
    /\ StartsWith(sc_code, S_VIP \o <<"-">>)
    /\ Len(sc_code) = 12

(***************************************************************************)
(* C6 (as stated).  Within one page no two coupons carry the same code,    *)
(* whatever the random draws were.                                         *)
(***************************************************************************)
C6_UniqueCodesPerPage ==
    \A t \in 1..Len(TablesOf(doc)) :
        LET codes == CodesOfTable(TablesOf(doc)[t]) IN
        \A j, k \in 1..Len(codes) : j # k => codes[j] # codes[k]

(***************************************************************************)
(* C7 (as stated).  Column detection never raises and always returns a     *)
(* name column and an identifier column, also for fewer than 2 columns.    *)
(***************************************************************************)
C7_DetectionTotal ==
    pc # "generate_docx" =>
        /\ ~Raised
        /\ col_name \in Range(df.columns)
        /\ col_id \in Range(df.columns)

(***************************************************************************)
(* C7 (amended).  For every column list of at least 2 columns, column      *)
(* detection does not raise and returns a name column and an identifier    *)
(* column of the list (the prefix column may be absent); with fewer than   *)
(* 2 columns it raises and nothing is generated.                           *)
(***************************************************************************)
C7_DetectionTotalFromTwoColumns ==
    pc # "generate_docx" =>
        IF Len(df.columns) >= 2
        THEN /\ ~Raised
             /\ col_name \in Range(df.columns)
             /\ col_id \in Range(df.columns)
             /\ col_prefix = None \/ col_prefix \in Range(df.columns)
        ELSE /\ Raised
             /\ buffer = None
             /\ doc = <<>>

C7_Witness ==
    /\ Resolved
    /\ Len(df.columns) = 2
    /\ col_prefix = None
    /\ col_name = df.columns[1]
    /\ col_id = df.columns[2]

(***************************************************************************)
(* C8.  When no column name contains "name" the name column is column 0;   *)
(* when none contains "code" or "id" the identifier column is column 1;    *)
(* when none contains "prefix" the prefix column is absent and every row   *)
(* uses the fallback prefix.  Columns ["Employee", "Badge", "X"] resolve   *)
(* to ("Employee", "Badge", absent).                                       *)
(***************************************************************************)
\* what a code shows of a prefix
ShownPrefix(p) == IF IsNullLike(p) THEN <<>> ELSE Upper(Strip(p)) \o <<"-">>

C8_PositionalFallback ==
    Resolved =>
        /\ NameHits = {} => col_name = df.columns[1]
        /\ IdHits = {} => col_id = df.columns[2]
        /\ PrefixHits = {} =>
              LET shown == ShownPrefix(default_prefix_input) IN
              /\ col_prefix = None
              /\ index >= 1 => current_prefix = default_prefix_input
              /\ \A e \in Range(doc) :
                    \A k \in 1..Len(e.cells) :
                       /\ StartsWith(e.cells[k].code, shown)
                       /\ Len(e.cells[k].code) = Len(shown) + 8
        /\ df.columns = <<S_Employee, S_Badge, S_X>> =>
              /\ col_name = S_Employee
              /\ col_id = S_Badge
              /\ col_prefix = None

C8_Witness ==
    /\ pc = "done"
    /\ buffer # None
    /\ df.columns = <<S_Employee, S_Badge, S_X>>
    /\ NRows = 2
    /\ default_prefix_input = S_EMP
    /\ df.rows[1][3] = StrCell(S_VIP)
    /\ col_prefix = None
    /\ StartsWith(TablesOf(doc)[1].cells[1].code, S_EMP \o <<"-">>)

(***************************************************************************)
(* C9 (as stated).  With zero rows generation fails fast with an error:    *)
(* no buffer is returned and no download is offered.  There is no partial  *)
(* success: a buffer is returned only with the full document, and an       *)
(* error leaves no buffer.                                                 *)
(***************************************************************************)
C9_EmptyRosterFailsFast ==
    /\ (pc = "done" /\ NRows = 0) => (buffer = None /\ ui = "error")
    /\ pc = "done" =>
          \/ ui = "error" /\ buffer = None
          \/ ui = "success_download" /\ buffer = doc /\ index = NRows

(***************************************************************************)
(* C10.  With a password configured, the form is reached only in a run     *)
(* where password_correct was already true or the submitted text equals    *)
(* the password; the flag starts false, becomes true only on a matching    *)
(* input and is never reset.  With no password configured every run is     *)
(* let through and the flag is never set.                                  *)
(***************************************************************************)
FormShown == gate_ui \in {"form", "form_generate"}

C10_GateSteps ==
    /\ (secret_password # None /\ granted')
          => (password_correct \/ pwd' = secret_password)
    /\ (~password_correct /\ password_correct')
          => (secret_password # None /\ pwd' = secret_password)
    /\ password_correct => password_correct'
    /\ FormShown' <=> granted'

C10_PasswordGate ==
    /\ ~password_correct /\ ~FormShown
    /\ [][C10_GateSteps]_vars
    /\ [](secret_password = None => (~password_correct /\ (runs > 0 => FormShown)))

C10_Witness ==
    /\ secret_password # None
    /\ runs >= 3
    /\ password_correct
    /\ pwd = None
    /\ FormShown

====
